---- MODULE Spec2Model ----
(***************************************************************************)
(* A model of ilinks: the internal-link analyser for WordPress sites.      *)
(*   core/api_client.py     get_all_posts, get_post_content, _make_request *)
(*   core/link_extractor.py extract_internal_links, extract_acf_links,     *)
(*                          resolve_slug_to_id                             *)
(*   core/data_processor.py calculate_incoming_links, build_dataframe      *)
(*   main.py                main                                           *)
(***************************************************************************)
EXTENDS Integers, Sequences, FiniteSets, TLC

(***************************************************************************)
(* Bounds of the model.                                                    *)
(***************************************************************************)
\* largest number of directory pages the server announces
MaxPages == 5
\* posts on a full directory page of the modelled server
PerPage == 2
\* longest article list handed to the aggregator on its own
MaxPosts == 2
\* most links, in total, of a LinkMap handed to the aggregator on its own
MaxLinks == 2

None == "None"

(***************************************************************************)
(* Python values.                                                          *)
(***************************************************************************)
\* dict: insertion-ordered; a sequence of [k, v] items with distinct keys
DictHas(d, key) == \E n \in 1..Len(d) : d[n].k = key

DictGet(d, key) == d[CHOOSE n \in 1..Len(d) : d[n].k = key].v

\* dict.get(key, default)
DictGetDefault(d, key, default) == IF DictHas(d, key) THEN DictGet(d, key) ELSE default

\* d[key] = val: an existing key keeps its position, a new key goes last
DictSet(d, key, val) ==
    IF DictHas(d, key)
    THEN [n \in 1..Len(d) |-> IF d[n].k = key THEN [k |-> key, v |-> val] ELSE d[n]]
    ELSE Append(d, [k |-> key, v |-> val])

DictKeys(d) == [n \in 1..Len(d) |-> d[n].k]

Range(s) == {s[n] : n \in 1..Len(s)}

RECURSIVE SumSeq(_)
SumSeq(s) == IF s = <<>> THEN 0 ELSE Head(s) + SumSeq(Tail(s))

\* ", ".join(map(str, ids))
RECURSIVE JoinIds(_)
JoinIds(ids) ==
    IF ids = <<>> THEN ""
    ELSE IF Len(ids) = 1 THEN ToString(ids[1])
    ELSE ToString(ids[1]) \o ", " \o JoinIds(Tail(ids))

\* sequences over S of length lo..hi
SeqsOf(S, lo, hi) == UNION {[1..n -> S] : n \in lo..hi}

IsInjective(s) == \A a, b \in 1..Len(s) : s[a] = s[b] => a = b

RECURSIVE Pow2(_)
Pow2(n) == IF n = 0 THEN 1 ELSE 2 * Pow2(n - 1)

(***************************************************************************)
(* The modelled site: PerPage posts on each of MaxPages directory pages.   *)
(***************************************************************************)
PostIds == 1..(MaxPages * PerPage)

SlugOf(i) == "post-" \o ToString(i)

\* an entry of all_posts: {"id": ..., "slug": ...}
Post(i) == [id |-> i, slug |-> SlugOf(i)]

VARIABLES
    pc,               \* position of the program
    X_WP_TotalPages,  \* the X-WP-TotalPages header the site sends
    all_posts,        \* get_all_posts / main: the article directory
    page,             \* get_all_posts: the page being fetched
    total_pages,      \* get_all_posts: the announced number of pages
    served,           \* what each _make_request call of the traversal returned
    mr_url,           \* _make_request: the url
    mr_ret,           \* _make_request: where the caller continues
    attempt,          \* _make_request: the loop variable
    slept,            \* _make_request: the time.sleep calls of this call
    response,         \* the value _make_request returned
    links_per_post,   \* main: the LinkMap, a dict post id -> list of ids
    incoming_links,   \* main: the IncomingMap
    df,               \* main: the report, a list of rows
    ignore_non_posts, \* main / resolve_slug_to_id: the flag of the current site
    slug,             \* resolve_slug_to_id: the slug
    r_attempt,        \* resolve_slug_to_id: the loop variable
    collection,       \* resolve_slug_to_id: the collection asked next
    queries,          \* resolve_slug_to_id: the requests.get calls of this call
    r_slept,          \* resolve_slug_to_id: the time.sleep calls of this call
    linked_post_id,   \* main: the resolved identifier, or None
    raised,           \* the exception on its way to main's handler, "" if none
    SITES,            \* config: the list of sites
    site,             \* main: the position of the current site in SITES
    post_idx,         \* main: the position of the current post in all_posts
    all_links,        \* main: the references extracted from the current post
    link_idx,         \* main: the position of the current link in all_links
    fetched,          \* the sites whose directory was requested
    csv               \* the sites whose report was written

dirVars == <<X_WP_TotalPages, page, total_pages, served>>
reqVars == <<mr_url, mr_ret, attempt, slept, response>>
aggVars == <<links_per_post, incoming_links, df>>
resVars == <<slug, r_attempt, collection, queries, r_slept>>

mainVars == <<SITES, site, post_idx, all_links, link_idx, fetched, csv>>

vars == <<pc, all_posts, dirVars, reqVars, aggVars, ignore_non_posts, resVars,
          linked_post_id, raised, mainVars>>

\* Optional[int]
NoneId == [none |-> TRUE, id |-> 0]
Id(i) == [none |-> FALSE, id |-> i]

\* `if x:` for an Optional[int]
Truthy(x) == ~x.none /\ x.id # 0

(***************************************************************************)
(* core/api_client.py: _make_request                                       *)
(***************************************************************************)
max_attempts == 3

\* a response body as response.json() sees it
ListBody(items) == [type |-> "list", items |-> items]
DictBody == [type |-> "dict", items |-> <<>>]       \* a JSON object, not a list
NullBody == [type |-> "null", items |-> <<>>]       \* null or {}
InvalidBody == [type |-> "invalid", items |-> <<>>] \* not JSON at all

NoResponse == [ok |-> FALSE, json |-> NullBody]

\* an item of a directory page
Item(i) == [keys |-> {"id", "slug"}, id |-> i, slug |-> SlugOf(i)]
ItemWithout(i, key) == [keys |-> {"id", "slug"} \ {key}, id |-> i, slug |-> SlugOf(i)]

FirstOnPage(p) == (p - 1) * PerPage + 1

FullPage(p) == [n \in 1..PerPage |-> Item(FirstOnPage(p) + n - 1)]

\* the bodies the site may answer a request for directory page p with
PageBodies(p) ==
    {ListBody(FullPage(p)),
     \* the last, shorter page
     ListBody(<<Item(FirstOnPage(p))>>),
     \* the directory moved by one post between two requests
     ListBody([n \in 1..PerPage |-> Item(IF p = 1 THEN n ELSE FirstOnPage(p) + n - 2)]),
     \* the same post twice on the page
     ListBody([n \in 1..PerPage |-> Item(FirstOnPage(p))]),
     ListBody(<<>>),
     ListBody([n \in 1..PerPage |->
                  IF n = PerPage THEN ItemWithout(FirstOnPage(p) + n - 1, "id")
                  ELSE Item(FirstOnPage(p) + n - 1)]),
     ListBody([n \in 1..PerPage |->
                  IF n = PerPage THEN ItemWithout(FirstOnPage(p) + n - 1, "slug")
                  ELSE Item(FirstOnPage(p) + n - 1)]),
     DictBody, NullBody, InvalidBody}

(***************************************************************************)
(* Strings are sequences of tokens; a token is a run of characters that    *)
(* the program never splits.                                               *)
(***************************************************************************)
\* str.lower(), and the case folding of re.IGNORECASE
Lower(t) ==
    CASE t = "HTTPS://" -> "https://"
      [] t = "EXAMPLE.COM" -> "example.com"
      [] t = ".PDF" -> ".pdf"
      [] OTHER -> t

Drop(str, n) == SubSeq(str, n + 1, Len(str))

RECURSIVE Concat(_)
Concat(str) == IF str = <<>> THEN "" ELSE Head(str) \o Concat(Tail(str))

\* an anchor of the rendered content: the text up to the href value, and the
\* href value
Anchor(href) == [open |-> "<a href=", href |-> href]

BASE_URL == <<"https://", "example.com">>

\* the rendered content of post i: "" is the empty sequence of anchors
ContentOf(i) ==
    CASE i % 3 = 1 ->
           <<Anchor(<<"https://", "example.com", "/", "post-2", "/">>),
             Anchor(<<"https://", "example.com", "/", "about">>)>>
      [] i % 3 = 2 ->
           <<Anchor(<<"https://", "example.com", "/", "files", "/", "report", ".pdf">>),
             Anchor(<<"https://", "other.org", "/", "post-1">>),
             Anchor(<<"HTTPS://", "EXAMPLE.COM", "/", "blog", "/", "post-3", "?ref=1">>),
             Anchor(<<"https://", "example.com", "/", "missing">>)>>
      [] OTHER -> <<>>

\* an element of the structured field: a Python value, for a string whether
\* it is padded with blanks and whether it is made of digits, and its number
IntElem(n) == [py |-> "int", pad |-> FALSE, digits |-> "none", n |-> n]
StrElem(n, pad) == [py |-> "str", pad |-> pad, digits |-> "ascii", n |-> n]
WordElem == [py |-> "str", pad |-> FALSE, digits |-> "none", n |-> 0]
\* a string such as "\u00b2": str.isdigit() is true of it and int() raises ValueError
SuperscriptElem == [py |-> "str", pad |-> FALSE, digits |-> "other", n |-> 0]
\* a JSON number with a fraction
FloatElem == [py |-> "float", pad |-> FALSE, digits |-> "none", n |-> 0]

\* the value of the structured field
StrField(parts) == [py |-> "str", elems |-> parts]    \* parts: value.split(',')
ListField(items) == [py |-> "list", elems |-> items]
AbsentField == [py |-> "None", elems |-> <<>>]
\* a JSON object or number as the value of the field
OtherField == [py |-> "dict", elems |-> <<>>]

\* the acf block of post i: a dict of fields
AcfOf(i) ==
    CASE i % 3 = 1 ->
           <<[k |-> "related-posts",
              v |-> StrField(<<StrElem(1, FALSE), StrElem(0, TRUE), WordElem>>)]>>
      [] i % 3 = 2 ->
           <<[k |-> "related-posts",
              v |-> ListField(<<IntElem(2), StrElem(2, FALSE), WordElem>>)]>>
      [] OTHER -> <<[k |-> "other-field", v |-> StrField(<<StrElem(1, FALSE)>>)]>>

\* the JSON of one post
PostData(has_content, content, has_acf, acf) ==
    [type |-> "post", has_content |-> has_content, content |-> content,
     has_acf |-> has_acf, acf |-> acf]

\* the bodies the site may answer a request for post i with: the post, the
\* post without its acf block, the post without content.rendered
PostBodies(i) ==
    {PostData(TRUE, ContentOf(i), TRUE, AcfOf(i)),
     PostData(TRUE, ContentOf(i), FALSE, <<>>),
     PostData(FALSE, <<>>, TRUE, AcfOf(i))}

\* what requests.get(url) may answer with status 2xx
Responses(url) ==
    IF url.kind = "posts_page"
    THEN {[ok |-> TRUE, json |-> b] : b \in PageBodies(url.page)}
    ELSE {[ok |-> TRUE, json |-> b] : b \in PostBodies(url.page) \cup {InvalidBody}}

\* a call _make_request(url) whose caller continues at ret
CallMakeRequest(url, ret) ==
    /\ pc' = "_make_request"
    /\ mr_url' = url
    /\ mr_ret' = ret
    /\ attempt' = 0
    /\ slept' = <<>>
    /\ UNCHANGED response

\* lines 117-119: the request succeeds
MakeRequest_Return ==
    /\ pc = "_make_request"
    /\ \E r \in Responses(mr_url) : response' = r
    /\ pc' = mr_ret
    /\ UNCHANGED <<all_posts, dirVars, mr_url, mr_ret, attempt, slept, aggVars, ignore_non_posts, resVars, linked_post_id, raised, mainVars>>

\* lines 120-125: RequestException before the last attempt: sleep and retry
MakeRequest_Retry ==
    /\ pc = "_make_request"
    /\ attempt < max_attempts - 1
    /\ slept' = Append(slept, Pow2(attempt))
    /\ attempt' = attempt + 1
    /\ UNCHANGED <<pc, all_posts, dirVars, mr_url, mr_ret, response, aggVars, ignore_non_posts, resVars, linked_post_id, raised, mainVars>>

\* lines 126-128: RequestException on the last attempt
MakeRequest_GiveUp ==
    /\ pc = "_make_request"
    /\ ~(attempt < max_attempts - 1)
    /\ response' = NoResponse
    /\ pc' = mr_ret
    /\ UNCHANGED <<all_posts, dirVars, mr_url, mr_ret, attempt, slept, aggVars, ignore_non_posts, resVars, linked_post_id, raised, mainVars>>

\* lines 129-131: any other exception
MakeRequest_Unexpected ==
    /\ pc = "_make_request"
    /\ response' = NoResponse
    /\ pc' = mr_ret
    /\ UNCHANGED <<all_posts, dirVars, mr_url, mr_ret, attempt, slept, aggVars, ignore_non_posts, resVars, linked_post_id, raised, mainVars>>

MakeRequest ==
    \/ MakeRequest_Return
    \/ MakeRequest_Retry
    \/ MakeRequest_GiveUp
    \/ MakeRequest_Unexpected

(***************************************************************************)
(* core/api_client.py: get_all_posts                                       *)
(***************************************************************************)
PageUrl(p) == [kind |-> "posts_page", page |-> p]

\* the header as response.headers.get sees it
HeaderAbsent == [kind |-> "absent", value |-> 0]
HeaderGarbage == [kind |-> "garbage", value |-> 0]
HeaderInt(n) == [kind |-> "int", value |-> n]

\* `not posts`
Falsy(body) == body.type = "null" \/ (body.type = "list" /\ body.items = <<>>)

\* response.json() or the loop over posts raises: the body is no JSON, or a
\* JSON object (the loop then runs over its keys), or an item lacks a field
Raises(body) ==
    \/ body.type = "invalid"
    \/ body.type = "dict"
    \/ \E n \in 1..Len(body.items) : ~({"id", "slug"} \subseteq body.items[n].keys)

\* lines 42-43 and 59-60
Entries(body) == [n \in 1..Len(body.items) |-> [id |-> body.items[n].id, slug |-> body.items[n].slug]]

Served == Append(served, [page |-> page, response |-> response])

\* lines 23-31
GetAllPosts_Start ==
    /\ pc = "get_all_posts"
    /\ all_posts' = <<>>
    /\ page' = 1
    /\ total_pages' = 0
    /\ served' = <<>>
    /\ CallMakeRequest(PageUrl(1), "get_all_posts_first")
    /\ UNCHANGED <<X_WP_TotalPages, aggVars, ignore_non_posts, resVars, linked_post_id, raised, mainVars>>

\* lines 32-33: no first page
GetAllPosts_FirstNone ==
    /\ pc = "get_all_posts_first"
    /\ ~response.ok
    /\ all_posts' = <<>>
    /\ served' = Served
    /\ pc' = "get_all_posts_return"
    /\ UNCHANGED <<X_WP_TotalPages, page, total_pages, reqVars, aggVars, ignore_non_posts, resVars, linked_post_id, raised, mainVars>>

\* lines 35-36 raise (the header is no number, the body no JSON), or the loop
\* of lines 42-43 does: lines 64-66
GetAllPosts_FirstRaises ==
    /\ pc = "get_all_posts_first"
    /\ response.ok
    /\ \/ X_WP_TotalPages.kind = "garbage"
       \/ response.json.type = "invalid"
       \/ ~Falsy(response.json) /\ Raises(response.json)
    /\ all_posts' = <<>>
    /\ served' = Served
    /\ pc' = "get_all_posts_return"
    /\ UNCHANGED <<X_WP_TotalPages, page, total_pages, reqVars, aggVars, ignore_non_posts, resVars, linked_post_id, raised, mainVars>>

\* a variant that goes on to the second page after an empty first page
GetAllPosts_FirstEmpty_Continues ==
    /\ pc = "get_all_posts_first"
    /\ response.ok
    /\ X_WP_TotalPages.kind # "garbage"
    /\ Falsy(response.json)
    /\ total_pages' = IF X_WP_TotalPages.kind = "int" THEN X_WP_TotalPages.value ELSE 1
    /\ all_posts' = <<>>
    /\ served' = Served
    /\ page' = 2
    /\ pc' = "get_all_posts_loop"
    /\ UNCHANGED <<X_WP_TotalPages, reqVars, aggVars, ignore_non_posts, resVars, linked_post_id, raised, mainVars>>

\* lines 38-40: no posts on the first page
GetAllPosts_FirstEmpty ==
    /\ pc = "get_all_posts_first"
    /\ response.ok
    /\ X_WP_TotalPages.kind # "garbage"
    /\ Falsy(response.json)
    /\ all_posts' = <<>>
    /\ served' = Served
    /\ pc' = "get_all_posts_return"
    /\ UNCHANGED <<X_WP_TotalPages, page, total_pages, reqVars, aggVars, ignore_non_posts, resVars, linked_post_id, raised, mainVars>>

\* lines 35-46: the first page is taken
GetAllPosts_FirstPage ==
    /\ pc = "get_all_posts_first"
    /\ response.ok
    /\ X_WP_TotalPages.kind # "garbage"
    /\ ~Falsy(response.json)
    /\ ~Raises(response.json)
    /\ total_pages' = IF X_WP_TotalPages.kind = "int" THEN X_WP_TotalPages.value ELSE 1
    /\ all_posts' = all_posts \o Entries(response.json)
    /\ served' = Served
    /\ page' = 2
    /\ pc' = "get_all_posts_loop"
    /\ UNCHANGED <<X_WP_TotalPages, reqVars, aggVars, ignore_non_posts, resVars, linked_post_id, raised, mainVars>>

\* `total_pages or 1`
TotalOr1 == IF total_pages = 0 THEN 1 ELSE total_pages

\* lines 47-50: another page to fetch
GetAllPosts_NextPage ==
    /\ pc = "get_all_posts_loop"
    /\ page <= TotalOr1
    /\ CallMakeRequest(PageUrl(page), "get_all_posts_page")
    /\ UNCHANGED <<all_posts, dirVars, aggVars, ignore_non_posts, resVars, linked_post_id, raised, mainVars>>

\* line 47 false, line 68
GetAllPosts_Done ==
    /\ pc = "get_all_posts_loop"
    /\ ~(page <= TotalOr1)
    /\ pc' = "get_all_posts_return"
    /\ UNCHANGED <<all_posts, dirVars, reqVars, aggVars, ignore_non_posts, resVars, linked_post_id, raised, mainVars>>

\* a variant that gives up the pages fetched so far when a later fetch fails
GetAllPosts_PageNone_Discard ==
    /\ pc = "get_all_posts_page"
    /\ ~response.ok
    /\ all_posts' = <<>>
    /\ served' = Served
    /\ pc' = "get_all_posts_return"
    /\ UNCHANGED <<X_WP_TotalPages, page, total_pages, reqVars, aggVars, ignore_non_posts, resVars, linked_post_id, raised, mainVars>>

\* lines 51-52 and 68: the fetch failed: break
GetAllPosts_PageNone ==
    /\ pc = "get_all_posts_page"
    /\ ~response.ok
    /\ served' = Served
    /\ pc' = "get_all_posts_return"
    /\ UNCHANGED <<all_posts, X_WP_TotalPages, page, total_pages, reqVars, aggVars, ignore_non_posts, resVars, linked_post_id, raised, mainVars>>

\* a variant that goes on to the next page after a page without posts
GetAllPosts_PageEmpty_Continues ==
    /\ pc = "get_all_posts_page"
    /\ response.ok
    /\ response.json.type # "invalid"
    /\ Falsy(response.json)
    /\ served' = Served
    /\ page' = page + 1
    /\ pc' = "get_all_posts_loop"
    /\ UNCHANGED <<all_posts, X_WP_TotalPages, total_pages, reqVars, aggVars, ignore_non_posts, resVars, linked_post_id, raised, mainVars>>

\* lines 55-57 and 68: no posts on the page: break
GetAllPosts_PageEmpty ==
    /\ pc = "get_all_posts_page"
    /\ response.ok
    /\ response.json.type # "invalid"
    /\ Falsy(response.json)
    /\ served' = Served
    /\ pc' = "get_all_posts_return"
    /\ UNCHANGED <<all_posts, X_WP_TotalPages, page, total_pages, reqVars, aggVars, ignore_non_posts, resVars, linked_post_id, raised, mainVars>>

\* line 54 or line 60 raises: lines 64-66 return []
GetAllPosts_PageRaises ==
    /\ pc = "get_all_posts_page"
    /\ response.ok
    /\ Raises(response.json)
    /\ all_posts' = <<>>
    /\ served' = Served
    /\ pc' = "get_all_posts_return"
    /\ UNCHANGED <<X_WP_TotalPages, page, total_pages, reqVars, aggVars, ignore_non_posts, resVars, linked_post_id, raised, mainVars>>

\* lines 59-62: the page is taken
GetAllPosts_Page ==
    /\ pc = "get_all_posts_page"
    /\ response.ok
    /\ ~Falsy(response.json)
    /\ ~Raises(response.json)
    /\ all_posts' = all_posts \o Entries(response.json)
    /\ served' = Served
    /\ page' = page + 1
    /\ pc' = "get_all_posts_loop"
    /\ UNCHANGED <<X_WP_TotalPages, total_pages, reqVars, aggVars, ignore_non_posts, resVars, linked_post_id, raised, mainVars>>

GetAllPosts ==
    \/ GetAllPosts_Start
    \/ GetAllPosts_FirstNone
    \/ GetAllPosts_FirstRaises
    \/ GetAllPosts_FirstEmpty
    \/ GetAllPosts_FirstPage
    \/ GetAllPosts_NextPage
    \/ GetAllPosts_Done
    \/ GetAllPosts_PageNone
    \/ GetAllPosts_PageEmpty
    \/ GetAllPosts_PageRaises
    \/ GetAllPosts_Page

\* the variables of each part of the program before it has run
UnsetDir ==
    /\ page = 1
    /\ total_pages = 0
    /\ served = <<>>

UnsetRequest ==
    /\ mr_url = PageUrl(1)
    /\ mr_ret = ""
    /\ attempt = 0
    /\ slept = <<>>
    /\ response = NoResponse

UnsetResolve ==
    /\ slug = ""
    /\ r_attempt = 0
    /\ collection = "posts"
    /\ queries = <<>>
    /\ r_slept = <<>>
    /\ linked_post_id = NoneId

UnsetAgg ==
    /\ incoming_links = <<>>
    /\ df = <<>>

UnsetMain ==
    /\ site = 0
    /\ post_idx = 0
    /\ all_links = <<>>
    /\ link_idx = 0
    /\ fetched = {}
    /\ csv = {}
    /\ raised = ""

(***************************************************************************)
(* The directory traversal on its own, against every behaviour of the site.*)
(***************************************************************************)
Headers == {HeaderAbsent, HeaderGarbage} \cup {HeaderInt(n) : n \in 0..MaxPages}

InitDir ==
    /\ pc = "get_all_posts"
    /\ X_WP_TotalPages \in Headers
    /\ SITES = <<>>
    /\ ignore_non_posts = TRUE
    /\ all_posts = <<>>
    /\ links_per_post = <<>>
    /\ UnsetDir /\ UnsetRequest /\ UnsetResolve /\ UnsetAgg /\ UnsetMain

NextDir == GetAllPosts \/ MakeRequest

SpecDir == InitDir /\ [][NextDir]_vars

Returned == pc = "get_all_posts_return"

\* the entries of the first n served pages, in page order
RECURSIVE EntriesOfPages(_)
EntriesOfPages(n) ==
    IF n = 0 THEN <<>> ELSE EntriesOfPages(n - 1) \o Entries(served[n].response.json)

LastServed == served[Len(served)]

\* C1: when the fetch of page k >= 2 fails for good, get_all_posts returns
\* exactly the articles of pages 1..k-1 in page order: not the empty list, and
\* no page after k is requested.
C1_PartialDirectoryKept ==
    (Returned /\ Len(served) >= 2 /\ ~LastServed.response.ok) =>
        /\ \A n \in 1..Len(served) : served[n].page = n
        /\ Len(served) <= total_pages
        /\ all_posts = EntriesOfPages(Len(served) - 1)
        /\ all_posts # <<>>

\* C1 witness: page 3 of 5 fails on all three attempts after two full pages
C1_Witness ==
    /\ Returned
    /\ total_pages = 5
    /\ Len(served) = 3
    /\ ~LastServed.response.ok
    /\ attempt = max_attempts - 1
    /\ slept = <<1, 2>>
    /\ all_posts = [n \in 1..(2 * PerPage) |-> Post(n)]

\* C2: when page k >= 2 arrives but its body is unexpected (no JSON list, or
\* an item without id or slug), the articles of pages 1..k-1 are returned.
C2_MalformedPageKeepsPrior ==
    (Returned /\ Len(served) >= 2 /\ LastServed.response.ok
        /\ Raises(LastServed.response.json)) =>
        /\ all_posts = EntriesOfPages(Len(served) - 1)
        /\ all_posts # <<>>

\* C3: the list get_all_posts returns has one entry per distinct id.
C3_DirectoryHasDistinctIds ==
    Returned => IsInjective([n \in 1..Len(all_posts) |-> all_posts[n].id])

(***************************************************************************)
(* core/api_client.py: get_post_content                                    *)
(***************************************************************************)
PostUrl(post_id) == [kind |-> "post", page |-> post_id]

\* lines 87-101: the pair (content, acf_data); ("", {}) when the fetch failed,
\* the body is no JSON or has no content.rendered
get_post_content(resp) ==
    IF ~resp.ok \/ resp.json.type = "invalid" \/ ~resp.json.has_content
    THEN <<(<<>>), (<<>>)>>
    ELSE <<resp.json.content, IF resp.json.has_acf THEN resp.json.acf ELSE <<>>>>

(***************************************************************************)
(* core/link_extractor.py: extract_internal_links, extract_acf_links       *)
(***************************************************************************)
\* base_url.rstrip('/')
RECURSIVE RStripSlash(_)
RStripSlash(str) ==
    IF str # <<>> /\ str[Len(str)] = "/" THEN RStripSlash(SubSeq(str, 1, Len(str) - 1))
    ELSE str

RECURSIVE LStripSlash(_)
LStripSlash(str) == IF str # <<>> /\ Head(str) = "/" THEN LStripSlash(Tail(str)) ELSE str

HasPrefixCI(str, pre) ==
    /\ Len(pre) <= Len(str)
    /\ \A n \in 1..Len(pre) : Lower(str[n]) = Lower(pre[n])

\* line 20: what is left of the href after (?:https?://)?(?:www\.)?, for each
\* way the two optional groups can match, in the order the regex tries them
AfterOptionalGroups(href) ==
    LET scheme == href # <<>> /\ Lower(href[1]) \in {"http://", "https://"}
        www(str) == str # <<>> /\ Lower(str[1]) = "www."
    IN  (IF scheme /\ www(Tail(href)) THEN <<Drop(href, 2)>> ELSE <<>>)
            \o (IF scheme THEN <<Drop(href, 1)>> ELSE <<>>)
            \o (IF www(href) THEN <<Drop(href, 1)>> ELSE <<>>)
            \o <<href>>

\* lines 19-21: the group the regex captures in one anchor, as a one-element
\* sequence, or the empty sequence when the anchor does not match
FindLink(anchor, base_url) ==
    LET base == RStripSlash(base_url)
        rests == SelectSeq(AfterOptionalGroups(anchor.href), LAMBDA r : HasPrefixCI(r, base))
    IN  IF Lower(anchor.open) = "<a href=" /\ rests # <<>>
        THEN <<Drop(rests[1], Len(base))>>
        ELSE <<>>

\* line 21: re.findall over the content
RECURSIVE FindAll(_, _)
FindAll(post_content, base_url) ==
    IF post_content = <<>> THEN <<>>
    ELSE FindLink(Head(post_content), base_url) \o FindAll(Tail(post_content), base_url)

\* line 26: urlparse(link).path: the link up to its query or fragment
RECURSIVE UrlPath(_)
UrlPath(link) ==
    IF link = <<>> \/ Head(link) \in {"?ref=1", "#top"} THEN <<>>
    ELSE <<Head(link)>> \o UrlPath(Tail(link))

\* line 27
EndsWithFileExtension(path) ==
    path # <<>> /\ Lower(path[Len(path)]) \in {".pdf", ".jpg", ".jpeg", ".png", ".gif"}

\* split('/')[-1]
RECURSIVE LastSegment(_)
LastSegment(str) ==
    IF \E n \in 1..Len(str) : str[n] = "/" THEN LastSegment(Tail(str)) ELSE str

\* line 30
SlugOfPath(path) == Concat(LastSegment(LStripSlash(RStripSlash(path))))

\* lines 23-32
RECURSIVE SlugsOfLinks(_)
SlugsOfLinks(links) ==
    IF links = <<>> THEN <<>>
    ELSE (IF EndsWithFileExtension(UrlPath(Head(links))) THEN <<>>
          ELSE <<SlugOfPath(UrlPath(Head(links)))>>) \o SlugsOfLinks(Tail(links))

extract_internal_links(post_content, base_url) == SlugsOfLinks(FindAll(post_content, base_url))

\* str(x).isdigit() for an element as it stands, or stripped of blanks
IsDigit(x, stripped) ==
    IF x.py = "int" THEN x.n >= 0
    ELSE x.py = "str" /\ x.digits # "none" /\ (stripped \/ ~x.pad)

\* lines 51-66
extract_acf_links(acf_data, acf_field_name) ==
    LET related_posts == DictGetDefault(acf_data, acf_field_name, AbsentField)
        kept == SelectSeq(related_posts.elems, LAMBDA x : IsDigit(x, related_posts.py = "str"))
    IN  IF related_posts.py \notin {"str", "list"} THEN <<>>
        \* int(x) raises ValueError for a digit that is no decimal digit
        ELSE IF \E n \in 1..Len(kept) : kept[n].py = "str" /\ kept[n].digits # "ascii" THEN <<>>
        ELSE [n \in 1..Len(kept) |-> kept[n].n]

(***************************************************************************)
(* core/link_extractor.py: resolve_slug_to_id                              *)
(***************************************************************************)
resolve_max_attempts == 3

\* the site's pages and categories: "about" is a page, "news" a category, and
\* the slug of post 1 is also the slug of a page and of a category
PageId == MaxPages * PerPage + 1
TwinPageId == MaxPages * PerPage + 2
CategoryId == MaxPages * PerPage + 3
TwinCategoryId == MaxPages * PerPage + 4

\* the ids of the objects of a collection that have the slug: the JSON list a
\* by-slug request is answered with
Matches(coll, s) ==
    IF coll = "posts" THEN {i \in PostIds : SlugOf(i) = s}
    ELSE IF coll = "pages"
         THEN (IF s = "about" THEN {PageId} ELSE {}) \cup (IF s = SlugOf(1) THEN {TwinPageId} ELSE {})
    ELSE (IF s = "news" THEN {CategoryId} ELSE {}) \cup (IF s = SlugOf(1) THEN {TwinCategoryId} ELSE {})

\* the slugs resolve_slug_to_id is tried on
Slugs == {SlugOf(1), SlugOf(2), "about", "news", "missing"}

\* a variant that asks the categories before the pages
NextCollection_CategoriesFirst(coll) == IF coll = "posts" THEN "categories" ELSE "pages"

\* lines 90-105: the collection asked after one that had no match
NextCollection(coll) == IF coll = "posts" THEN "pages" ELSE "categories"

\* a variant that falls back to pages and categories whatever the flag says
FallsBack_Always(coll, ignore) == coll # "categories"

\* a variant that asks the pages after the posts whatever the flag says
FallsBack_ToPages(coll, ignore) == coll = "posts" \/ (~ignore /\ coll # "categories")

\* line 90: after an empty answer, is another collection asked?
FallsBack(coll, ignore) == ~ignore /\ coll # "categories"

\* a call resolve_slug_to_id(base_url, s, ignore_non_posts)
CallResolve(s) ==
    /\ pc' = "resolve_slug_to_id"
    /\ slug' = s
    /\ r_attempt' = 0
    /\ collection' = "posts"
    /\ queries' = <<>>
    /\ r_slept' = <<>>

Asked == Append(queries, collection)

\* lines 87-88, 96-97, 104-105: the first match's id is returned
Resolve_Found ==
    /\ pc = "resolve_slug_to_id"
    /\ \E i \in Matches(collection, slug) : linked_post_id' = Id(i)
    /\ queries' = Asked
    /\ pc' = "main_keep"
    /\ UNCHANGED <<all_posts, dirVars, reqVars, aggVars, ignore_non_posts, slug,
                   r_attempt, collection, r_slept, raised, mainVars>>

\* the matching object has no "id": KeyError, and the handler of lines 119-120
\* formats its message with `url`, a name that is not defined: NameError
Resolve_Unexpected ==
    /\ pc = "resolve_slug_to_id"
    /\ Matches(collection, slug) # {}
    /\ queries' = Asked
    /\ raised' = "NameError"
    /\ pc' = "main_except"
    /\ UNCHANGED <<all_posts, dirVars, reqVars, aggVars, ignore_non_posts, slug,
                   r_attempt, collection, r_slept, linked_post_id, mainVars>>

\* lines 90-100: no match: on to the next collection
Resolve_NextCollection ==
    /\ pc = "resolve_slug_to_id"
    /\ Matches(collection, slug) = {}
    /\ FallsBack(collection, ignore_non_posts)
    /\ queries' = Asked
    /\ collection' = NextCollection(collection)
    /\ UNCHANGED <<pc, all_posts, dirVars, reqVars, aggVars, ignore_non_posts, slug,
                   r_attempt, r_slept, linked_post_id, raised, mainVars>>

\* lines 107-108: no match in any collection asked
Resolve_NotFound ==
    /\ pc = "resolve_slug_to_id"
    /\ Matches(collection, slug) = {}
    /\ ~FallsBack(collection, ignore_non_posts)
    /\ queries' = Asked
    /\ linked_post_id' = NoneId
    /\ pc' = "main_keep"
    /\ UNCHANGED <<all_posts, dirVars, reqVars, aggVars, ignore_non_posts, slug,
                   r_attempt, collection, r_slept, raised, mainVars>>

\* lines 110-115: RequestException before the last attempt: sleep, start over
Resolve_Retry ==
    /\ pc = "resolve_slug_to_id"
    /\ r_attempt < resolve_max_attempts - 1
    /\ queries' = Asked
    /\ r_slept' = Append(r_slept, Pow2(r_attempt))
    /\ r_attempt' = r_attempt + 1
    /\ collection' = "posts"
    /\ UNCHANGED <<pc, all_posts, dirVars, reqVars, aggVars, ignore_non_posts, slug,
                   linked_post_id, raised, mainVars>>

\* lines 116-118: RequestException on the last attempt
Resolve_GiveUp ==
    /\ pc = "resolve_slug_to_id"
    /\ ~(r_attempt < resolve_max_attempts - 1)
    /\ queries' = Asked
    /\ linked_post_id' = NoneId
    /\ pc' = "main_keep"
    /\ UNCHANGED <<all_posts, dirVars, reqVars, aggVars, ignore_non_posts, slug,
                   r_attempt, collection, r_slept, raised, mainVars>>

ResolveSlugToId ==
    \/ Resolve_Found
    \/ Resolve_Unexpected
    \/ Resolve_NextCollection
    \/ Resolve_NotFound
    \/ Resolve_Retry
    \/ Resolve_GiveUp

(***************************************************************************)
(* resolve_slug_to_id on its own: every slug, either flag, every outcome   *)
(* of every request.                                                       *)
(***************************************************************************)
InitResolve ==
    /\ pc = "resolve_slug_to_id"
    /\ slug \in Slugs
    /\ ignore_non_posts \in BOOLEAN
    /\ r_attempt = 0
    /\ collection = "posts"
    /\ queries = <<>>
    /\ r_slept = <<>>
    /\ linked_post_id = NoneId
    /\ X_WP_TotalPages = HeaderAbsent
    /\ SITES = <<>>
    /\ all_posts = <<>>
    /\ links_per_post = <<>>
    /\ UnsetDir /\ UnsetRequest /\ UnsetAgg /\ UnsetMain

NextResolve == ResolveSlugToId

SpecResolve == InitResolve /\ [][NextResolve]_vars

ResolveReturned == pc = "main_keep"

\* C10: with ignore_non_posts true, resolve_slug_to_id asks only the posts
\* collection, on every attempt, and a slug that matches only a page or only a
\* category comes back as None.
C10_OnlyPostsAsked ==
    ignore_non_posts =>
        /\ \A n \in 1..Len(queries) : queries[n] = "posts"
        /\ collection = "posts"
        /\ (Matches("posts", slug) = {} /\ pc # "resolve_slug_to_id") =>
               (ResolveReturned /\ linked_post_id = NoneId)

\* C10 witness: the slug of a page, the flag set, a first attempt that failed
\* and a second that was answered
C10_Witness ==
    /\ ignore_non_posts
    /\ slug = "about"
    /\ Matches("pages", slug) # {}
    /\ ResolveReturned
    /\ queries = <<"posts", "posts">>
    /\ linked_post_id = NoneId

(***************************************************************************)
(* core/data_processor.py                                                  *)
(***************************************************************************)
\* lines 22-24: an empty list for each post
RECURSIVE InitIncoming(_, _)
InitIncoming(incoming, posts) ==
    IF posts = <<>> THEN incoming
    ELSE InitIncoming(DictSet(incoming, Head(posts).id, <<>>), Tail(posts))

\* lines 27-31: the inner loop over one post's outgoing links
RECURSIVE AddOutgoing(_, _, _)
AddOutgoing(incoming, post_id, outgoing_links) ==
    IF outgoing_links = <<>> THEN incoming
    ELSE LET linked == Head(outgoing_links)
         IN  AddOutgoing(
                 IF DictHas(incoming, linked)
                 THEN DictSet(incoming, linked,
                              Append(DictGet(incoming, linked), post_id))
                 ELSE incoming,   \* warning, skipped
                 post_id, Tail(outgoing_links))

\* lines 26-31: the loop over links_per_post.items()
RECURSIVE AddAllOutgoing(_, _)
AddAllOutgoing(incoming, items) ==
    IF items = <<>> THEN incoming
    ELSE AddAllOutgoing(AddOutgoing(incoming, Head(items).k, Head(items).v), Tail(items))

\* a variant that makes a key on demand for each target instead of one per post
calculate_incoming_links_on_demand(posts, links) ==
    AddAllOutgoing(
        InitIncoming(<<>>, [n \in 1..Len(links) |-> [id |-> links[n].k, slug |-> ""]]),
        links)

\* a variant that records each source once per target
calculate_incoming_links_once(posts, links) ==
    LET full == AddAllOutgoing(InitIncoming(<<>>, posts), links)
        Firsts(s) == {n \in 1..Len(s) : \A m \in 1..(n - 1) : s[m] # s[n]}
        Nth(S, j) == CHOOSE n \in S : Cardinality({m \in S : m < n}) = j - 1
        Dedup(s) == [j \in 1..Cardinality(Firsts(s)) |-> s[Nth(Firsts(s), j)]]
    IN  [n \in 1..Len(full) |-> [k |-> full[n].k, v |-> Dedup(full[n].v)]]

\* a variant that goes through the LinkMap from its last key to its first
calculate_incoming_links_backwards(posts, links) ==
    AddAllOutgoing(InitIncoming(<<>>, posts),
                   [n \in 1..Len(links) |-> links[Len(links) + 1 - n]])

calculate_incoming_links(posts, links) ==
    AddAllOutgoing(InitIncoming(<<>>, posts), links)

\* lines 49-62: one row per post, in all_posts order; index is the DataFrame index
BuildData(posts, links, incoming) ==
    [n \in 1..Len(posts) |->
        LET post_id == posts[n].id
            outgoing_links == DictGetDefault(links, post_id, <<>>)
            incoming_links_for_post == DictGetDefault(incoming, post_id, <<>>)
        IN  [index |-> n - 1,
             post_id |-> post_id,
             post_slug |-> posts[n].slug,
             outgoing_count |-> Len(outgoing_links),
             outgoing_links |-> JoinIds(outgoing_links),
             incoming_count |-> Len(incoming_links_for_post),
             incoming_links |-> JoinIds(incoming_links_for_post)]]

\* line 65: df.sort_values(by='incoming_count', ascending=False) with the default
\* kind='quicksort', which is not a stable sort: every arrangement of the rows
\* with non-increasing incoming_count is a possible result
sort_values(data) ==
    {[n \in 1..Len(data) |-> data[p[n]]] :
        p \in {q \in [1..Len(data) -> 1..Len(data)] :
                 /\ IsInjective(q)
                 /\ \A a, b \in 1..Len(data) :
                        a < b => data[q[a]].incoming_count >= data[q[b]].incoming_count}}

build_dataframe(posts, links, incoming) == sort_values(BuildData(posts, links, incoming))

\* main.py line 91
CalculateIncomingLinks ==
    /\ pc = "calculate_incoming_links"
    /\ incoming_links' = calculate_incoming_links(all_posts, links_per_post)
    /\ pc' = "build_dataframe"
    /\ UNCHANGED <<all_posts, dirVars, reqVars, links_per_post, df, ignore_non_posts, resVars,
                   linked_post_id, raised, mainVars>>

\* main.py line 95
BuildDataframe ==
    /\ pc = "build_dataframe"
    /\ \E sorted \in build_dataframe(all_posts, links_per_post, incoming_links) :
           df' = sorted
    /\ pc' = "to_csv"
    /\ UNCHANGED <<all_posts, dirVars, reqVars, links_per_post, incoming_links,
                   ignore_non_posts, resVars, linked_post_id, raised, mainVars>>

(***************************************************************************)
(* The aggregator on its own: every article list and every LinkMap within  *)
(* the bounds.                                                             *)
(***************************************************************************)
\* the identifiers the aggregator is tried on: with fewer than three articles
\* in the list, some target is no article
AggIds == {1, 2, 3}

\* the targets, in order, that a flat list of (source position, target) links
\* gives to the source at position n
RECURSIVE TargetsOf(_, _)
TargetsOf(flat, n) ==
    IF flat = <<>> THEN <<>>
    ELSE IF Head(flat).s = n THEN <<Head(flat).t>> \o TargetsOf(Tail(flat), n)
    ELSE TargetsOf(Tail(flat), n)

\* every LinkMap over AggIds with at most MaxLinks links in total, in every
\* key insertion order
AggLinkMaps ==
    UNION {{[n \in 1..Len(keys) |-> [k |-> keys[n], v |-> TargetsOf(flat, n)]] :
               flat \in SeqsOf([s : 1..Len(keys), t : AggIds], 0, MaxLinks)} :
           keys \in {ks \in SeqsOf(AggIds, 0, Cardinality(AggIds)) : IsInjective(ks)}}

InitAgg ==
    /\ pc = "calculate_incoming_links"
    /\ all_posts \in SeqsOf({Post(i) : i \in AggIds}, 1, MaxPosts)
    /\ links_per_post \in AggLinkMaps
    /\ X_WP_TotalPages = HeaderAbsent
    /\ SITES = <<>>
    /\ ignore_non_posts = TRUE
    /\ UnsetDir /\ UnsetRequest /\ UnsetResolve /\ UnsetAgg /\ UnsetMain

NextAgg == CalculateIncomingLinks \/ BuildDataframe

SpecAgg == InitAgg /\ [][NextAgg]_vars

ArticleIds == {all_posts[n].id : n \in 1..Len(all_posts)}

Aggregated == pc \in {"build_dataframe", "to_csv"}

LinkTargets == UNION {Range(links_per_post[n].v) : n \in 1..Len(links_per_post)}

TotalLen(d) == SumSeq([n \in 1..Len(d) |-> Len(d[n].v)])

\* C6: the report is ordered by incoming_count descending and the sort is
\* stable: rows with equal incoming_count keep the order of all_posts (stated
\* here for article lists of distinct ids, where it already fails).
C6_StableDescendingReport ==
    (pc = "to_csv" /\ IsInjective([n \in 1..Len(all_posts) |-> all_posts[n].id])) =>
        \A a, b \in 1..Len(df) :
            a < b =>
                /\ df[a].incoming_count >= df[b].incoming_count
                /\ df[a].incoming_count = df[b].incoming_count => df[a].index < df[b].index

\* C7: when every target of the LinkMap is a known article, the incoming
\* sequences hold as many entries as the outgoing sequences, and (the article
\* ids being distinct and every source a known article) the two count columns
\* of the report have the same total.
C7_LinkCountConserved ==
    /\ (Aggregated /\ LinkTargets \subseteq ArticleIds) =>
           TotalLen(incoming_links) = TotalLen(links_per_post)
    /\ (/\ pc = "to_csv"
        /\ LinkTargets \subseteq ArticleIds
        /\ IsInjective([n \in 1..Len(all_posts) |-> all_posts[n].id])
        /\ Range(DictKeys(links_per_post)) \subseteq ArticleIds) =>
           SumSeq([n \in 1..Len(df) |-> df[n].incoming_count])
               = SumSeq([n \in 1..Len(df) |-> df[n].outgoing_count])

\* C7 witness: a report built from a LinkMap of two links, all targets known,
\* one source linking twice to the same article
C7_Witness ==
    /\ pc = "to_csv"
    /\ LinkTargets \subseteq ArticleIds
    /\ Range(DictKeys(links_per_post)) \subseteq ArticleIds
    /\ IsInjective([n \in 1..Len(all_posts) |-> all_posts[n].id])
    /\ \E n \in 1..Len(links_per_post) :
           Len(links_per_post[n].v) = 2 /\ links_per_post[n].v[1] = links_per_post[n].v[2]
    /\ TotalLen(incoming_links) = 2

\* C8: the keys of the IncomingMap are exactly the article ids, one key each;
\* an article no LinkMap sequence names has an empty incoming sequence (so the
\* empty LinkMap gives every article an empty sequence); a target that is no
\* article adds no key.
C8_IncomingKeysAreArticles ==
    Aggregated =>
        /\ Range(DictKeys(incoming_links)) = ArticleIds
        /\ IsInjective(DictKeys(incoming_links))
        /\ \A n \in 1..Len(incoming_links) :
               incoming_links[n].k \notin LinkTargets => incoming_links[n].v = <<>>
        /\ links_per_post = <<>> =>
               \A n \in 1..Len(incoming_links) : incoming_links[n].v = <<>>

\* C8 witness: aggregation of a LinkMap with a target that is no article, next
\* to an article that has an inbound link and one that has none
C8_Witness ==
    /\ Aggregated
    /\ ~(LinkTargets \subseteq ArticleIds)
    /\ \E n \in 1..Len(incoming_links) : incoming_links[n].v = <<>>
    /\ \E n \in 1..Len(incoming_links) : incoming_links[n].v # <<>>

(***************************************************************************)
(* main.py                                                                 *)
(***************************************************************************)
\* number of configured sites
NumSites == 2
\* the number of directory pages a site of a whole run may announce
MainPages == 2

ACF_FIELD_NAME == "related-posts"

\* a reference of all_links: a slug (str) or an identifier (int)
SlugLink(s) == [py |-> "str", s |-> s, n |-> 0]
IntLink(i) == [py |-> "int", s |-> "", n |-> i]

\* a variant that puts the links of the structured field first
AllLinks_FieldFirst(post_content, acf_data, base_url, acf_field_name) ==
    LET internal_links == IF post_content # <<>>
                          THEN extract_internal_links(post_content, base_url)
                          ELSE <<>>
        acf_links == IF acf_data # <<>>
                     THEN extract_acf_links(acf_data, acf_field_name)
                     ELSE <<>>
    IN  [n \in 1..Len(acf_links) |-> IntLink(acf_links[n])]
            \o [n \in 1..Len(internal_links) |-> SlugLink(internal_links[n])]

\* lines 52-65: all_links of a post, content links first
AllLinks(post_content, acf_data, base_url, acf_field_name) ==
    LET internal_links == IF post_content # <<>>
                          THEN extract_internal_links(post_content, base_url)
                          ELSE <<>>
        acf_links == IF acf_data # <<>>
                     THEN extract_acf_links(acf_data, acf_field_name)
                     ELSE <<>>
    IN  [n \in 1..Len(internal_links) |-> SlugLink(internal_links[n])]
            \o [n \in 1..Len(acf_links) |-> IntLink(acf_links[n])]

\* line 78: a variant that keeps every resolved identifier
Keeps_All(id, posts, ignore) == TRUE

\* line 78: the keep rule
Keeps(id, posts, ignore) == id \in {posts[n].id : n \in 1..Len(posts)} \/ ~ignore

\* the locals of a call that has returned are gone
PopRequest ==
    /\ mr_url' = PageUrl(1)
    /\ mr_ret' = ""
    /\ attempt' = 0
    /\ slept' = <<>>
    /\ response' = NoResponse

PopGetAllPosts ==
    /\ page' = 1
    /\ total_pages' = 0
    /\ served' = <<>>
    /\ PopRequest

PopResolve ==
    /\ slug' = ""
    /\ r_attempt' = 0
    /\ collection' = "posts"
    /\ queries' = <<>>
    /\ r_slept' = <<>>

\* lines 24-35: the next site of SITES; what the previous iteration left in
\* the loop's variables is not read again
Main_NextSite ==
    /\ pc = "main_for_site"
    /\ site < Len(SITES)
    /\ site' = site + 1
    /\ ignore_non_posts' = SITES[site + 1].ignore_non_posts
    /\ fetched' = fetched \cup {site + 1}
    /\ all_posts' = <<>>
    /\ links_per_post' = <<>>
    /\ incoming_links' = <<>>
    /\ df' = <<>>
    /\ post_idx' = 0
    /\ pc' = "get_all_posts"
    /\ UNCHANGED <<dirVars, reqVars, resVars, linked_post_id, raised,
                   SITES, all_links, link_idx, csv>>

\* line 103: the loop over SITES is over
Main_Done ==
    /\ pc = "main_for_site"
    /\ ~(site < Len(SITES))
    /\ pc' = "main_done"
    /\ UNCHANGED <<all_posts, dirVars, reqVars, aggVars, ignore_non_posts, resVars,
                   linked_post_id, raised, mainVars>>

\* lines 37-39: no directory: on to the next site
Main_NoPosts ==
    /\ pc = "get_all_posts_return"
    /\ all_posts = <<>>
    /\ PopGetAllPosts
    /\ pc' = "main_for_site"
    /\ UNCHANGED <<all_posts, X_WP_TotalPages, aggVars, ignore_non_posts, resVars,
                   linked_post_id, raised, mainVars>>

\* lines 41-46
Main_HasPosts ==
    /\ pc = "get_all_posts_return"
    /\ all_posts # <<>>
    /\ links_per_post' = <<>>
    /\ post_idx' = 1
    /\ PopGetAllPosts
    /\ pc' = "main_for_post"
    /\ UNCHANGED <<all_posts, X_WP_TotalPages, incoming_links, df, ignore_non_posts,
                   resVars, linked_post_id, raised, SITES, site, all_links, link_idx,
                   fetched, csv>>

\* lines 46-50 and api_client.py lines 84-86: the next post's content is asked for
Main_NextPost ==
    /\ pc = "main_for_post"
    /\ post_idx <= Len(all_posts)
    /\ CallMakeRequest(PostUrl(all_posts[post_idx].id), "get_post_content_return")
    /\ UNCHANGED <<all_posts, dirVars, aggVars, ignore_non_posts, resVars,
                   linked_post_id, raised, mainVars>>

\* line 46: the loop over all_posts is over
Main_PostsDone ==
    /\ pc = "main_for_post"
    /\ ~(post_idx <= Len(all_posts))
    /\ pc' = "calculate_incoming_links"
    /\ UNCHANGED <<all_posts, dirVars, reqVars, aggVars, ignore_non_posts, resVars,
                   linked_post_id, raised, mainVars>>

\* a variant that skips the article when neither source gave a reference
Main_Extract_SkipsEmpty ==
    /\ pc = "get_post_content_return"
    /\ LET post_id == all_posts[post_idx].id
           got == get_post_content(response)
           links == AllLinks(got[1], got[2], BASE_URL, ACF_FIELD_NAME)
       IN  IF links = <<>>
           THEN /\ all_links' = <<>>
                /\ link_idx' = 0
                /\ post_idx' = post_idx + 1
                /\ pc' = "main_for_post"
                /\ UNCHANGED links_per_post
           ELSE /\ all_links' = links
                /\ links_per_post' = DictSet(links_per_post, post_id, <<>>)
                /\ link_idx' = 1
                /\ pc' = "main_for_link"
                /\ UNCHANGED post_idx
    /\ PopRequest
    /\ UNCHANGED <<all_posts, dirVars, incoming_links, df, ignore_non_posts,
                   resVars, linked_post_id, raised, SITES, site, fetched, csv>>

\* api_client.py lines 87-101 and main.py lines 50-68
Main_Extract ==
    /\ pc = "get_post_content_return"
    /\ LET post_id == all_posts[post_idx].id
           got == get_post_content(response)
       IN  /\ all_links' = AllLinks(got[1], got[2], BASE_URL, ACF_FIELD_NAME)
           /\ links_per_post' = DictSet(links_per_post, post_id, <<>>)
    /\ link_idx' = 1
    /\ PopRequest
    /\ pc' = "main_for_link"
    /\ UNCHANGED <<all_posts, dirVars, incoming_links, df, ignore_non_posts,
                   resVars, linked_post_id, raised, SITES, site, post_idx, fetched, csv>>

\* lines 69-72: the link is an identifier
Main_LinkIsId ==
    /\ pc = "main_for_link"
    /\ link_idx <= Len(all_links)
    /\ all_links[link_idx].py = "int"
    /\ linked_post_id' = Id(all_links[link_idx].n)
    /\ pc' = "main_keep"
    /\ UNCHANGED <<all_posts, dirVars, reqVars, aggVars, ignore_non_posts, resVars,
                   raised, mainVars>>

\* lines 69-75: the link is a slug
Main_LinkIsSlug ==
    /\ pc = "main_for_link"
    /\ link_idx <= Len(all_links)
    /\ all_links[link_idx].py # "int"
    /\ linked_post_id' = NoneId
    /\ CallResolve(all_links[link_idx].s)
    /\ UNCHANGED <<all_posts, dirVars, reqVars, aggVars, ignore_non_posts,
                   raised, mainVars>>

\* line 69: the loop over all_links is over
Main_LinksDone ==
    /\ pc = "main_for_link"
    /\ ~(link_idx <= Len(all_links))
    /\ post_idx' = post_idx + 1
    /\ all_links' = <<>>
    /\ link_idx' = 0
    /\ pc' = "main_for_post"
    /\ UNCHANGED <<all_posts, dirVars, reqVars, aggVars, ignore_non_posts, resVars,
                   linked_post_id, raised, SITES, site, fetched, csv>>

\* lines 77-85
Main_Keep ==
    /\ pc = "main_keep"
    /\ LET post_id == all_posts[post_idx].id
       IN  links_per_post' =
               IF Truthy(linked_post_id) /\ Keeps(linked_post_id.id, all_posts, ignore_non_posts)
               THEN DictSet(links_per_post, post_id,
                            Append(DictGet(links_per_post, post_id), linked_post_id.id))
               ELSE links_per_post
    /\ link_idx' = link_idx + 1
    /\ linked_post_id' = NoneId
    /\ PopResolve
    /\ pc' = "main_for_link"
    /\ UNCHANGED <<all_posts, dirVars, reqVars, incoming_links, df, ignore_non_posts,
                   raised, SITES, site, post_idx, all_links, fetched, csv>>

\* lines 99-101: the report is written
Main_ToCsv ==
    /\ pc = "to_csv"
    /\ csv' = csv \cup {site}
    /\ pc' = "main_for_site"
    /\ UNCHANGED <<all_posts, dirVars, reqVars, aggVars, ignore_non_posts, resVars,
                   linked_post_id, raised, SITES, site, post_idx, all_links, link_idx,
                   fetched>>

\* line 99: the file cannot be written
Main_ToCsvFails ==
    /\ pc = "to_csv"
    /\ raised' = "OSError"
    /\ pc' = "main_except"
    /\ UNCHANGED <<all_posts, dirVars, reqVars, aggVars, ignore_non_posts, resVars,
                   linked_post_id, mainVars>>

\* lines 105-106: the handler around the whole loop logs the exception, and
\* main returns
Main_Except ==
    /\ pc = "main_except"
    /\ pc' = "main_done"
    /\ UNCHANGED <<all_posts, dirVars, reqVars, aggVars, ignore_non_posts, resVars,
                   linked_post_id, raised, mainVars>>

Main ==
    \/ Main_NextSite
    \/ Main_Done
    \/ Main_NoPosts
    \/ Main_HasPosts
    \/ Main_NextPost
    \/ Main_PostsDone
    \/ Main_Extract
    \/ Main_LinkIsId
    \/ Main_LinkIsSlug
    \/ Main_LinksDone
    \/ Main_Keep
    \/ Main_ToCsv
    \/ Main_ToCsvFails
    \/ Main_Except

\* main.py line 21: a run over NumSites sites, each with its own flag; every
\* site announces MainPages directory pages
Init ==
    /\ pc = "main_for_site"
    /\ SITES \in [1..NumSites -> [ignore_non_posts : BOOLEAN]]
    /\ X_WP_TotalPages \in {HeaderAbsent, HeaderInt(MainPages)}
    /\ ignore_non_posts = TRUE
    /\ all_posts = <<>>
    /\ links_per_post = <<>>
    /\ UnsetDir /\ UnsetRequest /\ UnsetResolve /\ UnsetAgg /\ UnsetMain

Next ==
    \/ Main
    \/ GetAllPosts
    \/ MakeRequest
    \/ ResolveSlugToId
    \/ CalculateIncomingLinks
    \/ BuildDataframe

Spec == Init /\ [][Next]_vars

\* main has returned
MainReturned == pc = "main_done"

\* C4: an error raised while a site is processed aborts that site only: when
\* main returns, the directory of every configured site has been asked for.
C4_LaterSitesStillAnalyzed ==
    MainReturned => fetched = 1..Len(SITES)

\* C5: resolve_slug_to_id raises nothing, whatever its lookups answer: a match
\* without an id is a reference not found, and main goes on to the keep rule.
C5_UnresolvableNeverFatal ==
    raised # "NameError"

\* C9: at the keep rule a resolved identifier is appended to the LinkMap if and
\* only if it is a known article or ignore_non_posts is false; every LinkMap
\* key is a known article, and with ignore_non_posts true so is every value.
C9_KeepRule ==
    /\ [][pc = "main_keep" /\ ~linked_post_id.none =>
              ((links_per_post' # links_per_post) <=>
                   (linked_post_id.id \in ArticleIds \/ ~ignore_non_posts))]_vars
    /\ [](Range(DictKeys(links_per_post)) \subseteq ArticleIds)
    /\ [](ignore_non_posts => LinkTargets \subseteq ArticleIds)

(***************************************************************************)
(* The processing of one site's articles on its own: lines 45-85 of main,  *)
(* from a directory that get_all_posts returned to the end of the loop     *)
(* over all_posts.                                                         *)
(***************************************************************************)
\* the directories: the first articles of the site in order, the same in
\* reverse, and article 1 listed twice
Directories ==
    {[n \in 1..k |-> Post(n)] : k \in 1..MaxPosts}
        \cup {[n \in 1..k |-> Post(k + 1 - n)] : k \in 2..MaxPosts}
        \cup {<<Post(1), Post(1)>>}

InitSite ==
    /\ pc = "main_for_post"
    /\ all_posts \in Directories
    /\ ignore_non_posts \in BOOLEAN
    /\ SITES = <<[ignore_non_posts |-> ignore_non_posts]>>
    /\ site = 1
    /\ fetched = {1}
    /\ post_idx = 1
    /\ links_per_post = <<>>
    /\ all_links = <<>> /\ link_idx = 0
    /\ csv = {} /\ raised = ""
    /\ X_WP_TotalPages = HeaderAbsent
    /\ UnsetDir /\ UnsetRequest /\ UnsetResolve /\ UnsetAgg

NextSite ==
    \/ Main_NextPost
    \/ Main_PostsDone
    \/ Main_Extract
    \/ Main_LinkIsId
    \/ Main_LinkIsSlug
    \/ Main_LinksDone
    \/ Main_Keep
    \/ MakeRequest
    \/ ResolveSlugToId

SpecSite == InitSite /\ [][NextSite]_vars

\* the reference being resolved is the slug of a page that is no post's slug
PageOnlySlug == Matches("posts", slug) = {} /\ Matches("pages", slug) # {}

\* C11 as stated: with ignore_non_posts true, resolve_slug_to_id answers a slug
\* that only a page has with that page's identifier, and main then drops it.
C11_ResolverReturnsPageId ==
    [][(pc = "main_keep" /\ ignore_non_posts /\ PageOnlySlug) =>
           /\ linked_post_id \in {Id(i) : i \in Matches("pages", slug)}
           /\ links_per_post' = links_per_post]_vars

\* C11 amended: with ignore_non_posts true, resolve_slug_to_id asks the posts
\* collection only and answers a slug that only a page has with None; main
\* appends nothing for it.
C11_PageOnlySlugIsNotFound ==
    [][(pc = "main_keep" /\ ignore_non_posts /\ PageOnlySlug) =>
           /\ linked_post_id = NoneId
           /\ \A n \in 1..Len(queries) : queries[n] = "posts"
           /\ links_per_post' = links_per_post]_vars

\* C11 witness: in a whole run, the anchor to the page "about" of an article of
\* a site with the flag set has been resolved, at the first attempt
C11_Witness ==
    /\ pc = "main_keep"
    /\ ignore_non_posts
    /\ slug = "about"
    /\ PageOnlySlug
    /\ queries = <<"posts">>
    /\ linked_post_id = NoneId
    /\ site >= 1

\* the collections in the order of lines 83, 92 and 100
LookupOrder == <<"posts", "pages", "categories">>

\* the first collection of LookupOrder that has an object with the slug, 0 if none
FirstMatching(s) ==
    IF \A k \in 1..Len(LookupOrder) : Matches(LookupOrder[k], s) = {} THEN 0
    ELSE CHOOSE k \in 1..Len(LookupOrder) :
            /\ Matches(LookupOrder[k], s) # {}
            /\ \A j \in 1..(k - 1) : Matches(LookupOrder[j], s) = {}

\* C12: with ignore_non_posts false, each attempt of resolve_slug_to_id asks
\* posts, then pages, then categories; a collection is asked only when those
\* before it had no match; the identifier returned is that of the first
\* collection with a match, so a slug of a post and a page resolves to the post.
C12_LookupOrderAndPrecedence ==
    ~ignore_non_posts =>
        /\ (queries # <<>> => queries[1] = "posts")
        /\ \A n \in 1..(Len(queries) - 1) :
               \/ queries[n + 1] = "posts"
               \/ \E k \in 1..(Len(LookupOrder) - 1) :
                      queries[n] = LookupOrder[k] /\ queries[n + 1] = LookupOrder[k + 1]
        /\ \A n \in 1..Len(queries) : \A k \in 1..Len(LookupOrder) :
               queries[n] = LookupOrder[k] =>
                   \A j \in 1..(k - 1) : Matches(LookupOrder[j], slug) = {}
        /\ (ResolveReturned /\ ~linked_post_id.none) =>
               /\ FirstMatching(slug) # 0
               /\ linked_post_id.id \in Matches(LookupOrder[FirstMatching(slug)], slug)
               /\ queries[Len(queries)] = LookupOrder[FirstMatching(slug)]

\* C12 witness: the slug of a category, the flag clear: the first attempt failed
\* at the pages, the second went through the three collections
C12_Witness ==
    /\ ~ignore_non_posts
    /\ slug = "news"
    /\ ResolveReturned
    /\ queries = <<"posts", "pages", "posts", "pages", "categories">>
    /\ linked_post_id = Id(CategoryId)

\* C12 witness of the precedence: a slug that a post, a page and a category share
C12_WitnessTwin ==
    /\ ~ignore_non_posts
    /\ Matches("posts", slug) # {} /\ Matches("pages", slug) # {}
    /\ ResolveReturned
    /\ linked_post_id = Id(1)

\* the reference main is at is a number
AtNumericLink ==
    /\ link_idx \in 1..Len(all_links)
    /\ all_links[link_idx].py = "int"

\* C13: a numeric reference n, 0 included, is used as the identifier as it
\* stands, without any request, and is appended exactly when the keep rule
\* says so: it is never taken for a reference that was not found.
C13_NumericReferencesBypass ==
    /\ [][(pc = "main_for_link" /\ AtNumericLink) =>
              /\ linked_post_id' = Id(all_links[link_idx].n)
              /\ pc' = "main_keep"
              /\ queries' = queries]_vars
    /\ [][(pc = "main_keep" /\ AtNumericLink) =>
              ((links_per_post' # links_per_post) <=>
                   (all_links[link_idx].n \in ArticleIds \/ ~ignore_non_posts))]_vars

(***************************************************************************)
(* The extraction step of main on its own: lines 50-68 applied to every    *)
(* post body within the bounds.                                            *)
(***************************************************************************)
\* the longest structured field
MaxElems == 2
\* the most anchors in a rendered content
MaxAnchors == 2

\* the parts of a comma-separated string, and the items of a JSON list
StrParts == {StrElem(0, FALSE), StrElem(2, FALSE), StrElem(2, TRUE), WordElem, SuperscriptElem}
ListItems == StrParts \cup {IntElem(0), IntElem(1), FloatElem}

AcfFields ==
    {StrField(parts) : parts \in SeqsOf(StrParts, 1, MaxElems)}
        \cup {ListField(items) : items \in SeqsOf(ListItems, 0, MaxElems)}
        \cup {AbsentField, OtherField}

\* the acf blocks: the field with each value, and a block without the field
AcfBlocks ==
    {<<[k |-> ACF_FIELD_NAME, v |-> f]>> : f \in AcfFields}
        \cup {<<[k |-> "other-field", v |-> StrField(<<StrElem(2, FALSE)>>)]>>}

\* the href values: with and without a scheme and www., the site's host in
\* either case or another host, and a path
Schemes == {<<"https://">>, <<"http://">>, <<"HTTPS://">>, <<>>}
Hosts == {<<"example.com">>, <<"EXAMPLE.COM">>, <<"other.org">>}
Paths ==
    {<<>>, <<"/">>, <<"/", "about">>, <<"/", "about", "/">>,
     <<"/", "blog", "/", "post-2", "?ref=1">>,
     <<"/", "files", "/", "report", ".pdf">>,
     <<"/", "files", "/", "photo", ".PDF">>}
Hrefs ==
    {sc \o w \o h \o p : sc \in Schemes, w \in {<<>>, <<"www.">>}, h \in Hosts, p \in Paths}

\* the hrefs of the contents with several anchors
SomeHrefs ==
    {<<"https://", "example.com", "/", "about">>,
     <<"http://", "example.com", "/", "blog", "/", "post-2", "?ref=1">>,
     <<"https://", "example.com", "/">>,
     <<"https://", "example.com", "/", "files", "/", "report", ".pdf">>}

\* the rendered contents: none or one anchor with any href, or several anchors
RenderedContents ==
    SeqsOf({Anchor(h) : h \in Hrefs}, 0, 1)
        \cup SeqsOf({Anchor(h) : h \in SomeHrefs}, 2, MaxAnchors)

\* the post bodies of this specification: every content with a fixed acf
\* block, every acf block with a fixed content
ExtractBodies ==
    {PostData(TRUE, c, TRUE, AcfOf(1)) : c \in RenderedContents}
        \cup {PostData(TRUE, ContentOf(1), TRUE, a) : a \in AcfBlocks}
        \cup {PostData(TRUE, <<>>, TRUE, a) : a \in AcfBlocks}
        \cup {PostData(TRUE, c, FALSE, <<>>) : c \in RenderedContents}

InitExtract ==
    /\ pc = "get_post_content_return"
    /\ response \in {[ok |-> TRUE, json |-> b] : b \in ExtractBodies}
    /\ all_posts = <<Post(1)>>
    /\ post_idx = 1
    /\ site = 1
    /\ SITES = <<[ignore_non_posts |-> FALSE]>>
    /\ ignore_non_posts = FALSE
    /\ X_WP_TotalPages = HeaderAbsent
    /\ links_per_post = <<>>
    /\ mr_url = PostUrl(1) /\ mr_ret = "get_post_content_return"
    /\ attempt = 0 /\ slept = <<>>
    /\ all_links = <<>> /\ link_idx = 0
    /\ fetched = {1} /\ csv = {} /\ raised = ""
    /\ UnsetDir /\ UnsetResolve /\ UnsetAgg

NextExtract == Main_Extract

SpecExtract == InitExtract /\ [][NextExtract]_vars

\* the post body main is about to extract from
AtExtract == pc = "get_post_content_return" /\ response.ok /\ response.json.type = "post"

\* the numbers and the slugs of a list of references, each in order
NumbersOf(links) ==
    LET ints == SelectSeq(links, LAMBDA l : l.py = "int")
    IN  [n \in 1..Len(ints) |-> ints[n].n]
SlugsOf(links) ==
    LET strs == SelectSeq(links, LAMBDA l : l.py = "str")
    IN  [n \in 1..Len(strs) |-> strs[n].s]

\* an element that can be made a non-negative integer: a string of decimal
\* digits once trimmed, or a non-negative number
Coercible(x) ==
    \/ x.py = "int" /\ x.n >= 0
    \/ x.py = "str" /\ x.digits = "ascii"

\* the coercible elements of a field, as integers, in input order
CoercedElements(field) ==
    LET kept == SelectSeq(field.elems, Coercible)
    IN  IF field.py \in {"str", "list"} THEN [n \in 1..Len(kept) |-> kept[n].n] ELSE <<>>

\* C14: extract_acf_links returns exactly the elements of the field that can be
\* made non-negative integers, as integers and in input order; an element that
\* cannot is dropped alone; an absent field or another shape gives [].
C14_CoercibleElementsExtracted ==
    [][(AtExtract /\ response.json.has_content /\ response.json.has_acf) =>
           NumbersOf(all_links') =
               CoercedElements(DictGetDefault(response.json.acf, ACF_FIELD_NAME, AbsentField))]_vars

\* the href is an absolute http or https URL of the site's own host, written
\* in either case, with or without www.
PointsToOwnHost(href) ==
    \E sc \in Schemes \ {<<>>}, w \in {<<>>, <<"www.">>}, h \in Hosts, p \in Paths :
        /\ href = sc \o w \o h \o p
        /\ Lower(h[1]) = BASE_URL[2]

\* the same address written as the configured base URL writes the host
Canonical(href) ==
    IF PointsToOwnHost(href)
    THEN BASE_URL \o (CHOOSE p \in Paths :
                         \E sc \in Schemes \ {<<>>}, w \in {<<>>, <<"www.">>}, h \in Hosts :
                             href = sc \o w \o h \o p)
    ELSE href

\* C15: an anchor whose href is an http or https URL of the site's own host,
\* with or without www. and in either case, is an internal link: it gives the
\* slug that the same address gives when written exactly as the base URL.
C15_OriginMatch ==
    [][(AtExtract /\ response.json.has_content) =>
           SlugsOf(all_links') =
               extract_internal_links(
                   [n \in 1..Len(response.json.content) |->
                        [response.json.content[n] EXCEPT !.href = Canonical(@)]],
                   BASE_URL)]_vars

\* the last segment of a path that is not empty, as a one-element sequence, or
\* the empty sequence for a path without one
LastNonEmptySegment(path) ==
    LET at == {n \in 1..Len(path) : path[n] # "/"}
    IN  IF at = {} THEN <<>>
        ELSE <<path[CHOOSE n \in at : \A m \in at : m <= n]>>

\* the slug candidates of the matched links: none for a file, none for a path
\* without a segment
RECURSIVE SlugCandidates(_)
SlugCandidates(links) ==
    IF links = <<>> THEN <<>>
    ELSE (IF EndsWithFileExtension(UrlPath(Head(links))) THEN <<>>
          ELSE LastNonEmptySegment(UrlPath(Head(links)))) \o SlugCandidates(Tail(links))

\* C16: each matched anchor gives nothing when its path ends in pdf, jpg, jpeg,
\* png or gif, and otherwise the last non-empty segment of its path; an empty
\* string is never a slug candidate (an anchor to the site root gives none).
C16_SlugCandidates ==
    [][(AtExtract /\ response.json.has_content) =>
           /\ SlugsOf(all_links') = SlugCandidates(FindAll(response.json.content, BASE_URL))
           /\ \A n \in 1..Len(all_links') : all_links'[n].py = "str" => all_links'[n].s # ""]_vars

\* the article main is at, and its outbound sequence so far
CurrentPostId == all_posts[post_idx].id
CurrentOutbound == DictGet(links_per_post, CurrentPostId)

\* C17: the references of an article are the content anchors' in their order,
\* then the structured field's in their order; they are taken one by one in
\* that order, and each step leaves the LinkMap as it is or appends the
\* identifier at the end of the article's sequence, a second time too when it
\* is there already.
C17_OutboundOrder ==
    /\ [][AtExtract =>
              LET got == get_post_content(response)
              IN  /\ SlugsOf(all_links') =
                         (IF got[1] # <<>> THEN extract_internal_links(got[1], BASE_URL) ELSE <<>>)
                  /\ NumbersOf(all_links') =
                         (IF got[2] # <<>> THEN extract_acf_links(got[2], ACF_FIELD_NAME) ELSE <<>>)
                  /\ \A a, b \in 1..Len(all_links') :
                         (all_links'[a].py = "str" /\ all_links'[b].py = "int") => a < b
                  /\ link_idx' = 1
                  /\ DictGet(links_per_post', CurrentPostId) = <<>>]_vars
    /\ [][pc = "main_keep" =>
              /\ link_idx' = link_idx + 1
              /\ all_links' = all_links
              /\ links_per_post' \in
                     {links_per_post,
                      DictSet(links_per_post, CurrentPostId,
                              Append(CurrentOutbound, linked_post_id.id))}
              /\ (~linked_post_id.none /\ linked_post_id.id \in Range(CurrentOutbound)) =>
                     links_per_post' # links_per_post]_vars
    /\ [][(pc \in {"main_for_link", "resolve_slug_to_id"} /\ pc' # "main_for_post") =>
              /\ links_per_post' = links_per_post
              /\ link_idx' = link_idx
              /\ all_links' = all_links]_vars

\* C17 witness: article 2 links to the post 3 from its content, then twice to
\* itself from its structured field, and all three are kept
C17_Witness ==
    /\ pc = "main_for_post"
    /\ DictHas(links_per_post, 2)
    /\ DictGet(links_per_post, 2) = <<3, 2, 2>>

(***************************************************************************)
(* The loop over SITES up to the loop over all_posts: lines 24-46 of main  *)
(* with get_all_posts, for every behaviour of every site's directory.      *)
(***************************************************************************)
InitLoop == Init

NextLoop ==
    \/ Main_NextSite
    \/ Main_Done
    \/ Main_NoPosts
    \/ Main_HasPosts
    \/ GetAllPosts
    \/ MakeRequest

SpecLoop == InitLoop /\ [][NextLoop]_vars

\* the first page of the directory was not fetched, or has no article
FirstPageEmpty ==
    /\ pc = "get_all_posts_first"
    /\ ~response.ok \/ Falsy(response.json)

\* C18: when page 1 cannot be fetched or has no article, get_all_posts returns
\* [] and asks for no other page; main then makes no LinkMap, no aggregation
\* and no report for the site and goes on to the next site of SITES.
C18_EmptyFirstPage ==
    /\ [][FirstPageEmpty =>
              /\ pc' = "get_all_posts_return"
              /\ all_posts' = <<>>
              /\ page' = 1 /\ Len(served') = 1]_vars
    /\ [][(pc = "get_all_posts_return" /\ all_posts = <<>>) =>
              /\ pc' = "main_for_site"
              /\ links_per_post = <<>> /\ links_per_post' = <<>>
              /\ incoming_links' = <<>> /\ df' = <<>>
              /\ csv' = csv /\ site \notin csv
              /\ raised' = ""]_vars
    /\ [][(pc = "main_for_site" /\ site \in 1..(Len(SITES) - 1) /\ site \notin csv) =>
              (pc' = "get_all_posts" /\ site' = site + 1 /\ fetched' = fetched \cup {site + 1})]_vars
    /\ []((pc = "main_done" /\ raised = "") => fetched = 1..Len(SITES))

\* C18 witness: site 1 had an empty first page and got no report; the
\* directory of site 2 has been fetched and has articles
C18_Witness ==
    /\ site = 2
    /\ fetched = {1, 2}
    /\ csv = {}
    /\ raised = ""
    /\ pc = "get_all_posts_return"
    /\ all_posts # <<>>

\* the articles whose turn has come, and those that are done
Reached == {all_posts[n].id : n \in 1..post_idx}
Finished == {all_posts[n].id : n \in 1..(post_idx - 1)}

\* the detail of the article could not be fetched or is no JSON
NoDetail == ~response.ok \/ response.json.type = "invalid"

\* C19: an article whose detail fetch fails has no reference; one whose detail
\* lacks the rendered content has none from the content, one whose detail lacks
\* the structured field none from the field; in each case the article gets its
\* entry and the loop goes on to the later articles, so that once all articles
\* are processed the LinkMap has exactly one entry per known article.
C19_MissingDataIsNoLinks ==
    /\ [][pc = "get_post_content_return" =>
              /\ (NoDetail => all_links' = <<>>)
              /\ ((~NoDetail /\ ~response.json.has_content) => SlugsOf(all_links') = <<>>)
              /\ ((~NoDetail /\ ~response.json.has_acf) => NumbersOf(all_links') = <<>>)
              /\ DictHas(links_per_post', CurrentPostId)
              /\ DictGet(links_per_post', CurrentPostId) = <<>>
              /\ pc' = "main_for_link" /\ post_idx' = post_idx
              /\ raised' = ""]_vars
    /\ [][(pc = "main_for_link" /\ ~(link_idx <= Len(all_links))) =>
              (pc' = "main_for_post" /\ post_idx' = post_idx + 1)]_vars
    /\ [][(pc = "main_for_post" /\ post_idx <= Len(all_posts)) =>
              (pc' = "_make_request" /\ mr_url' = PostUrl(CurrentPostId))]_vars
    /\ [](pc \in {"main_for_link", "main_keep", "resolve_slug_to_id"} =>
              Range(DictKeys(links_per_post)) = Reached)
    /\ [](pc \in {"main_for_post", "calculate_incoming_links"} =>
              Range(DictKeys(links_per_post)) = Finished)
    /\ [](pc = "calculate_incoming_links" =>
              /\ Range(DictKeys(links_per_post)) = ArticleIds
              /\ IsInjective(DictKeys(links_per_post)))

\* C19 witness: the detail of article 1 was not to be had, article 2 was
\* processed after it, and the loop is over
C19_Witness ==
    /\ pc = "calculate_incoming_links"
    /\ all_posts = <<Post(1), Post(2)>>
    /\ ~ignore_non_posts
    /\ links_per_post = <<[k |-> 1, v |-> <<>>], [k |-> 2, v |-> <<3, 2, 2>>]>>

\* the call came back with None for a slug that a post has: no attempt was
\* answered, each failed with a RequestException
EveryAttemptFailed ==
    /\ ResolveReturned
    /\ linked_post_id = NoneId
    /\ Matches("posts", slug) # {}

\* C20: a call of resolve_slug_to_id whose attempts all fail makes exactly
\* max_attempts = 3 attempts, waits 1s, 2s and 4s, and comes back with None;
\* no call makes more than max_attempts attempts, and an attempt is made again
\* only after a failure and its wait.
C20_RetrySchedule ==
    /\ [](r_attempt < resolve_max_attempts)
    /\ [](EveryAttemptFailed =>
              /\ r_attempt + 1 = resolve_max_attempts
              /\ r_slept = [n \in 1..resolve_max_attempts |-> Pow2(n - 1)])
    /\ [][(pc = "resolve_slug_to_id" /\ r_attempt' # r_attempt /\ pc' = pc) =>
              /\ r_attempt' = r_attempt + 1
              /\ r_slept' = Append(r_slept, Pow2(r_attempt))]_vars

\* the number of occurrences of x in the sequence s
Count(s, x) == Cardinality({n \in 1..Len(s) : s[n] = x})

\* the position of the key k in the LinkMap
KeyPosition(k) == CHOOSE n \in 1..Len(links_per_post) : links_per_post[n].k = k

\* C21: for an article list of distinct ids, a source s is in the incoming
\* sequence of an article t as many times as t is in the LinkMap sequence of s
\* (twice for a link made twice, and t in its own sequence for a self-link),
\* and the sources of each incoming sequence are in the order of the LinkMap's
\* keys.
C21_InboundMultiplicity ==
    (Aggregated /\ IsInjective([n \in 1..Len(all_posts) |-> all_posts[n].id])) =>
        /\ \A n \in 1..Len(links_per_post) : \A t \in ArticleIds :
               Count(DictGet(incoming_links, t), links_per_post[n].k)
                   = Count(links_per_post[n].v, t)
        /\ \A m \in 1..Len(incoming_links) :
               /\ Range(incoming_links[m].v) \subseteq Range(DictKeys(links_per_post))
               /\ \A a, b \in 1..Len(incoming_links[m].v) :
                      a < b => KeyPosition(incoming_links[m].v[a])
                                   <= KeyPosition(incoming_links[m].v[b])

\* C21 witness: two sources link to the same article, one of them the article
\* itself, and the one that comes first in the LinkMap has the larger id
C21_Witness ==
    /\ Aggregated
    /\ IsInjective([n \in 1..Len(all_posts) |-> all_posts[n].id])
    /\ links_per_post = <<[k |-> 2, v |-> <<1>>], [k |-> 1, v |-> <<1>>]>>
    /\ DictGet(incoming_links, 1) = <<2, 1>>

\* C21 witness of the multiplicity: an article that links to itself twice
C21_WitnessTwice ==
    /\ Aggregated
    /\ \E n \in 1..Len(links_per_post) :
           /\ links_per_post[n].v = <<links_per_post[n].k, links_per_post[n].k>>
           /\ DictHas(incoming_links, links_per_post[n].k)
           /\ DictGet(incoming_links, links_per_post[n].k) = links_per_post[n].v

(***************************************************************************)
(* get_all_posts run to its end: the interpreter executes one statement    *)
(* after the other, so a step that is possible is eventually taken (every  *)
(* requests.get comes back with a response or an exception).               *)
(***************************************************************************)
SpecDirFair == InitDir /\ [][NextDir]_vars /\ WF_vars(NextDir)

\* the total the first page announces (1 when the header is absent)
AnnouncedTotal == IF X_WP_TotalPages.kind = "int" THEN X_WP_TotalPages.value ELSE 1

\* a step that calls _make_request
CallsMakeRequest == pc # "_make_request" /\ pc' = "_make_request"

\* C22: get_all_posts terminates for every announced total and every sequence
\* of fetch outcomes; the n-th call of _make_request asks for page n (pages
\* strictly increasing from 1, one call per page), a call makes at most
\* max_attempts HTTP attempts, no page after the first is beyond the announced
\* total, and no page is asked for after a failed or an empty page.
C22_TraversalTerminates ==
    /\ [][CallsMakeRequest =>
            /\ mr_url' = PageUrl(Len(served) + 1)
            /\ mr_url'.page >= 2 => mr_url'.page <= AnnouncedTotal
            /\ \A n \in 1..Len(served) :
                   served[n].response.ok /\ ~Falsy(served[n].response.json)]_vars
    /\ [](\A n \in 1..Len(served) : served[n].page = n)
    /\ [](pc = "_make_request" => attempt < max_attempts /\ Len(slept) = attempt)
    /\ <>Returned

\* C22 witness: of MaxPages announced pages the third one comes back empty
\* after one retry, and the traversal has ended without asking for a fourth
C22_Witness ==
    /\ Returned
    /\ X_WP_TotalPages = HeaderInt(MaxPages)
    /\ Len(served) = 3
    /\ LastServed.response.ok
    /\ Falsy(LastServed.response.json)
    /\ slept = <<1>>
    /\ page = 3

\* C22 witness: every announced page was requested, and none beyond
C22_WitnessAllPages ==
    /\ Returned
    /\ X_WP_TotalPages = HeaderInt(MaxPages)
    /\ Len(served) = MaxPages
    /\ page = MaxPages + 1

====
